---- MODULE Spec2Model ----
(***************************************************************************)
(* A model of wolfsoftware.data_converter (dataconverter.py).              *)
(*                                                                         *)
(* Python values are tagged records [k |-> kind, v |-> content]:           *)
(*   "str"   a str, v the sequence of its characters                       *)
(*   "int"   an int                                                        *)
(*   "none"  None                                                          *)
(*   "dict"  a dict, v the sequence of its <<key, value>> items in         *)
(*           insertion order, every key a sequence of characters           *)
(*   "list"  a list, v the sequence of its items                           *)
(*   "bytes" a bytes object holding a JSON document, v the value           *)
(*           json.loads reads from it                                      *)
(* A str that holds a whole document is kept by what its parser reads from *)
(* it instead of by its characters:                                        *)
(*   "json_text" v is the value json.loads returns                         *)
(*   "yaml_text" v is the value yaml.safe_load returns (block style: not   *)
(*               JSON)                                                     *)
(*   "xml_text"  v is the Element defusedxml's fromstring returns          *)
(*   "bad_text"  text that no parser accepts                               *)
(* An Element is [tag, attrib, text, children] as in xml.etree: attrib the *)
(* sequence of <<name, value>> pairs, text None or a str (the text before  *)
(* the first child; text after a child is that child's tail, which         *)
(* dataconverter.py never reads and the model leaves out).                 *)
(***************************************************************************)
EXTENDS Integers, Sequences, FiniteSets, TLC

VARIABLES
    arg,        \* the caller's input: the payload or the static method's argument
    self,       \* the DataConverter instance: NoObject or [data, data_type]
    given,      \* what the constructor was called with (history)
    first,      \* per operation, the outcome of its first call on self (history)
    repeated,   \* whether some operation has been called on self again
    last        \* the latest call: [op, param, from, input, out]

vars == <<arg, self, given, first, repeated, last>>

\* ------------------------------------------------------------------ bounds

\* Longest list in an input value.
MaxItems == 2

\* Most children of an input element.
MaxChildren == 3

\* ------------------------------------------------------------ Python values

PyStr(s) == [k |-> "str", v |-> s]

PyInt(n) == [k |-> "int", v |-> n]

PyDict(items) == [k |-> "dict", v |-> items]

PyList(xs) == [k |-> "list", v |-> xs]

PyNone == [k |-> "none", v |-> <<>>]

PyBytes(doc) == [k |-> "bytes", v |-> doc]

JsonText(doc) == [k |-> "json_text", v |-> doc]

YamlText(doc) == [k |-> "yaml_text", v |-> doc]

XmlText(root) == [k |-> "xml_text", v |-> root]

BadText == [k |-> "bad_text", v |-> <<>>]

\* isinstance(x, str)
IsStr(x) == x.k \in {"str", "json_text", "yaml_text", "xml_text", "bad_text"}

\* isinstance(x, (str, bytes, bytearray))
IsStrOrBytes(x) == IsStr(x) \/ x.k = "bytes"

\* isinstance(x, dict)
IsDict(x) == x.k = "dict"

\* isinstance(x, list)
IsList(x) == x.k = "list"

\* A call's outcome: the value returned, or the exception raised.
Return(x) == [kind |-> "return", val |-> x]

Raise(exc, msg) == [kind |-> "raise", val |-> [exc |-> exc, msg |-> msg]]

DataConverterError(msg) == Raise("DataConverterError", msg)

\* ------------------------------------------------------------------- strings

Whitespace == {" ", "\n", "\t"}

DigitChars == <<"0", "1", "2", "3", "4", "5", "6", "7", "8", "9">>

RECURSIVE NatToChars(_)
\* The decimal digits of a natural number.
NatToChars(n) ==
    IF n < 10 THEN <<DigitChars[n + 1]>>
    ELSE NatToChars(n \div 10) \o <<DigitChars[(n % 10) + 1]>>

\* str(n) of an int.
IntToChars(n) == IF n < 0 THEN <<"-">> \o NatToChars(-n) ELSE NatToChars(n)

\* str(data), for the scalars _dict_to_xml_recursive meets; str of a str is
\* the str itself.
str(data) ==
    IF IsStr(data) THEN data
    ELSE IF data.k = "int" THEN PyStr(IntToChars(data.v))
    ELSE PyStr(<<"N", "o", "n", "e">>)

RECURSIVE lstrip(_)
lstrip(s) == IF s # <<>> /\ Head(s) \in Whitespace THEN lstrip(Tail(s)) ELSE s

RECURSIVE rstrip(_)
rstrip(s) ==
    IF s # <<>> /\ s[Len(s)] \in Whitespace THEN rstrip(SubSeq(s, 1, Len(s) - 1))
    ELSE s

\* str.strip() on the characters of a str.
strip(s) == rstrip(lstrip(s))

\* ------------------------------------------------------------------ elements

\* ET.Element(tag): no attributes, no text, no children.
Element(tag) == [tag |-> tag, attrib |-> <<>>, text |-> PyNone, children |-> <<>>]

ItemTag == <<"i", "t", "e", "m">>

DefaultRootTag == <<"r", "o", "o", "t">>

\* ------------------------------------------------------- mapping -> XML

RECURSIVE _dict_to_xml_recursive(_, _)
\* The loop over data.items() run last key first.
_dict_to_xml_recursive_reversed(data, parent) ==
    IF IsDict(data) THEN
        [parent EXCEPT !.children = @ \o
            [i \in 1..Len(data.v) |->
                _dict_to_xml_recursive(data.v[Len(data.v) + 1 - i][2],
                                       Element(data.v[Len(data.v) + 1 - i][1]))]]
    ELSE IF IsList(data) THEN
        [parent EXCEPT !.children = @ \o
            [i \in 1..Len(data.v) |->
                _dict_to_xml_recursive(data.v[i], Element(ItemTag))]]
    ELSE [parent EXCEPT !.text = str(data)]

\* The parent element after _dict_to_xml_recursive(data, parent) has run.
_dict_to_xml_recursive(data, parent) ==
    IF IsDict(data) THEN
        [parent EXCEPT !.children = @ \o
            [i \in 1..Len(data.v) |->
                _dict_to_xml_recursive(data.v[i][2], Element(data.v[i][1]))]]
    ELSE IF IsList(data) THEN
        [parent EXCEPT !.children = @ \o
            [i \in 1..Len(data.v) |->
                _dict_to_xml_recursive(data.v[i], Element(ItemTag))]]
    ELSE [parent EXCEPT !.text = str(data)]

\* The tree dict_to_xml builds before it serialises it.
BuildTree(data, root_tag) == _dict_to_xml_recursive(data, Element(root_tag))

NameStartChars == {"a", "b", "c", "d", "i", "p", "r"}

NameChars == NameStartChars \cup {"e", "m", "o", "t"}

\* Whether expat accepts tag as an element name in the serialised tree.
ValidName(tag) ==
    /\ tag # <<>>
    /\ tag[1] \in NameStartChars
    /\ \A i \in 1..Len(tag) : tag[i] \in NameChars

RECURSIVE WellFormed(_)
\* Whether parseString accepts what ET.tostring writes for the element.
WellFormed(el) ==
    /\ ValidName(el.tag)
    /\ \A i \in 1..Len(el.children) : WellFormed(el.children[i])

RECURSIVE Tabs(_)
Tabs(n) == IF n = 0 THEN <<>> ELSE <<"\t">> \o Tabs(n - 1)

\* The characters of an element's text ("" for None).
TextChars(el) == IF el.text.k = "str" THEN el.text.v ELSE <<>>

RECURSIVE toprettyxml(_, _)
\* The element fromstring reads back from parseString(ET.tostring(el))
\* .toprettyxml(): an element with element children is written one node per
\* line, each indented by one tab per level; an element holding only text
\* stays on one line; an element holding nothing is written <tag/>.
toprettyxml(el, depth) ==
    IF el.children # <<>> THEN
        [el EXCEPT
            !.text = PyStr(
                <<"\n">> \o Tabs(depth + 1) \o
                (IF TextChars(el) # <<>>
                 THEN TextChars(el) \o <<"\n">> \o Tabs(depth + 1) ELSE <<>>)),
            !.children = [i \in 1..Len(el.children) |->
                toprettyxml(el.children[i], depth + 1)]]
    ELSE IF el.text.k = "str" /\ el.text.v = <<>> THEN [el EXCEPT !.text = PyNone]
    ELSE el

\* DataConverter.dict_to_xml(data, root_tag)
dict_to_xml(data, root_tag) ==
    LET root == BuildTree(data, root_tag)
    IN  IF WellFormed(root) THEN Return(XmlText(toprettyxml(root, 0)))
        ELSE Raise("ExpatError", "not well-formed (invalid token)")

\* DataConverter.json_to_xml(json_data, root_tag)
json_to_xml(json_data, root_tag) == dict_to_xml(json_data, root_tag)

\* ------------------------------------------------------- XML -> mapping

\* key in d, for the items d of a dict
HasKey(d, key) == \E i \in 1..Len(d) : d[i][1] = key

\* d[key]
DictGet(d, key) == d[CHOOSE i \in 1..Len(d) : d[i][1] = key][2]

\* d[key] = value: a present key keeps its place, a new key goes last.
DictSet(d, key, value) ==
    IF HasKey(d, key)
    THEN [i \in 1..Len(d) |-> IF d[i][1] = key THEN <<key, value>> ELSE d[i]]
    ELSE Append(d, <<key, value>>)

RECURSIVE DictUpdate(_, _)
\* d.update(other)
DictUpdate(d, other) ==
    IF other = <<>> THEN d
    ELSE DictUpdate(DictSet(d, Head(other)[1], Head(other)[2]), Tail(other))

\* One pass of the loop body over (key, value): a key met again turns its
\* entry into a list, if it is none yet, and appends the value.
FoldItem(child_dict, key, value) ==
    IF HasKey(child_dict, key) THEN
        LET cur == DictGet(child_dict, key)
            lst == IF ~IsList(cur) THEN PyList(<<cur>>) ELSE cur
        IN  DictSet(child_dict, key, PyList(Append(lst.v, value)))
    ELSE DictSet(child_dict, key, value)

RECURSIVE FoldItems(_, _)
\* for key, value in dc.items(): ...
FoldItems(child_dict, items) ==
    IF items = <<>> THEN child_dict
    ELSE FoldItems(FoldItem(child_dict, Head(items)[1], Head(items)[2]), Tail(items))

RECURSIVE FoldChildren(_, _)
\* for dc in map(_xml_to_dict_recursive, children): ...
FoldChildren(child_dict, dcs) ==
    IF dcs = <<>> THEN child_dict
    ELSE FoldChildren(FoldItems(child_dict, Head(dcs).v), Tail(dcs))

\* data_dict after the loop over element.attrib.items()
AttribItems(element) ==
    [i \in 1..Len(element.attrib) |->
        <<(<<"@">> \o element.attrib[i][1]), PyStr(element.attrib[i][2])>>]

\* The text kept as it is, whitespace and all.
StrippedTextUnstripped(element) ==
    IF element.text.k = "str" /\ element.text.v # <<>> THEN element.text ELSE PyNone

\* element.text.strip() if element.text and element.text.strip() else None
StrippedText(element) ==
    IF element.text.k = "str" /\ element.text.v # <<>> /\ strip(element.text.v) # <<>>
    THEN PyStr(strip(element.text.v))
    ELSE PyNone

HashText == <<"#", "t", "e", "x", "t">>

\* The last line returning data_dict whatever the element has.
FinalReturnBare(element, data_dict) == PyDict(data_dict)

\* What the last line returns: the mapping under the tag when the element has
\* attributes or children, the bare data_dict otherwise.
FinalReturn(element, data_dict) ==
    IF element.attrib # <<>> \/ element.children # <<>>
    THEN PyDict(<< <<element.tag, PyDict(data_dict)>> >>)
    ELSE PyDict(data_dict)

RECURSIVE _xml_to_dict_recursive(_)
\* DataConverter._xml_to_dict_recursive(element)
_xml_to_dict_recursive(element) ==
    LET children == element.children
        dcs == [i \in 1..Len(children) |-> _xml_to_dict_recursive(children[i])]
        with_attrs == AttribItems(element)
        with_children ==
            IF children # <<>>
            THEN DictUpdate(with_attrs, FoldChildren(<<>>, dcs))
            ELSE with_attrs
        text == StrippedText(element)
    IN  IF text # PyNone /\ children = <<>>
        THEN PyDict(<< <<element.tag, text>> >>)
        ELSE FinalReturn(element,
                IF text # PyNone THEN DictSet(with_children, HashText, text)
                ELSE with_children)

\* defusedxml.ElementTree.fromstring(text)
fromstring(text) ==
    IF text.k = "xml_text" THEN Return(text.v)
    ELSE Raise("ParseError", "syntax error")

\* json.dumps(obj)
json_dumps(obj) ==
    IF obj.k = "bytes"
    THEN Raise("TypeError", "Object of type bytes is not JSON serializable")
    ELSE Return(JsonText(obj))

\* json.loads(s)
json_loads(s) ==
    IF s.k \in {"json_text", "bytes"} THEN Return(s.v)
    ELSE Raise("JSONDecodeError", "Expecting value")

\* yaml.dump(data)
yaml_dump(data) == Return(YamlText(data))

\* DataConverter.yaml_to_dict(yaml_data): yaml.safe_load reads a YAML or a
\* JSON document to its value and a one-line XML document as one plain
\* scalar, the text itself.
yaml_to_dict(yaml_data) ==
    IF yaml_data.k \in {"yaml_text", "json_text"} THEN Return(yaml_data.v)
    ELSE IF yaml_data.k = "xml_text" THEN Return(yaml_data)
    ELSE Raise("YAMLError", "could not parse")

\* DataConverter.xml_to_json(xml_data)
xml_to_json(xml_data) ==
    LET root == fromstring(xml_data)
    IN  IF root.kind = "raise" THEN root
        ELSE json_dumps(_xml_to_dict_recursive(root.val))

\* ------------------------------------------------------------ the facade

\* The set of line 50 with yaml forgotten.
SupportedTypesNoYaml == {"json", "xml", "dict"}

SupportedTypes == {"json", "xml", "dict", "yaml"}

NoObject == [alive |-> FALSE, data |-> PyNone, data_type |-> ""]

\* DataConverter.__init__(data, data_type): the outcome and the instance.
__init__(data, data_type) ==
    IF data_type \notin SupportedTypes
    THEN [out |-> DataConverterError("Unsupported data type"), self |-> NoObject]
    ELSE [out |-> Return(PyNone),
          self |-> [alive |-> TRUE, data |-> data, data_type |-> data_type]]

\* f(r.v) when the call r returned, the exception r raised otherwise.
Then(r, f(_)) == IF r.kind = "raise" THEN r ELSE f(r.val)

\* DataConverter.to_json(self)
to_json(obj) ==
    IF obj.data_type = "xml" THEN
        IF IsStr(obj.data) THEN xml_to_json(obj.data)
        ELSE DataConverterError("Invalid data type for XML conversion")
    ELSE IF obj.data_type = "yaml" THEN
        IF IsStr(obj.data) THEN Then(yaml_to_dict(obj.data), json_dumps)
        ELSE DataConverterError("Invalid data type for YAML conversion")
    ELSE IF obj.data_type = "dict" THEN json_dumps(obj.data)
    ELSE DataConverterError("Unsupported data type for JSON conversion")

\* json_to_xml and dict_to_xml with the default root_tag
json_to_xml_default(json_data) == json_to_xml(json_data, DefaultRootTag)

dict_to_xml_default(data) == dict_to_xml(data, DefaultRootTag)

\* DataConverter.to_xml(self)
to_xml(obj) ==
    IF obj.data_type = "json" THEN
        IF IsStrOrBytes(obj.data) THEN Then(json_loads(obj.data), json_to_xml_default)
        ELSE DataConverterError("Invalid data type for JSON conversion")
    ELSE IF obj.data_type = "dict" THEN
        IF IsDict(obj.data) THEN dict_to_xml_default(obj.data)
        ELSE DataConverterError("Invalid data type for dict conversion")
    ELSE IF obj.data_type = "yaml" THEN
        IF IsStr(obj.data) THEN Then(yaml_to_dict(obj.data), dict_to_xml_default)
        ELSE DataConverterError("Invalid data type for YAML conversion")
    ELSE DataConverterError("Unsupported data type for XML conversion")

\* yaml.dump(self._xml_to_dict_recursive(element))
xml_element_to_yaml(element) == yaml_dump(_xml_to_dict_recursive(element))

\* to_yaml without its xml branch.
to_yaml_without_xml(obj) ==
    IF obj.data_type = "json" THEN
        IF IsStrOrBytes(obj.data) THEN Then(json_loads(obj.data), yaml_dump)
        ELSE DataConverterError("Invalid data type for JSON conversion")
    ELSE IF obj.data_type = "dict" THEN
        IF IsDict(obj.data) THEN yaml_dump(obj.data)
        ELSE DataConverterError("Invalid data type for dict conversion")
    ELSE DataConverterError("Unsupported data type for YAML conversion")

\* DataConverter.to_yaml(self)
to_yaml(obj) ==
    IF obj.data_type = "json" THEN
        IF IsStrOrBytes(obj.data) THEN Then(json_loads(obj.data), yaml_dump)
        ELSE DataConverterError("Invalid data type for JSON conversion")
    ELSE IF obj.data_type = "dict" THEN
        IF IsDict(obj.data) THEN yaml_dump(obj.data)
        ELSE DataConverterError("Invalid data type for dict conversion")
    ELSE IF obj.data_type = "xml" THEN
        IF IsStr(obj.data) THEN Then(fromstring(obj.data), xml_element_to_yaml)
        ELSE DataConverterError("Invalid data type for XML conversion")
    ELSE DataConverterError("Unsupported data type for YAML conversion")

\* ----------------------------------------------------------------- inputs

KeyA == <<"a">>

KeyB == <<"b">>

\* Every sequence over S of length at most n.
SeqsUpTo(S, n) == UNION {[1..m -> S] : m \in 0..n}

\* The key orders of the input dicts.
KeySeqs == {<<>>, <<KeyA>>, <<KeyB>>, <<KeyA, KeyB>>, <<KeyB, KeyA>>}

\* Every dict over those keys with values in V.
Dicts(V) ==
    UNION {{PyDict([i \in 1..Len(ks) |-> <<ks[i], f[i]>>]) : f \in [1..Len(ks) -> V]} :
           ks \in KeySeqs}

Leaves == {PyStr(<<"x">>), PyStr(<<>>), PyStr(<<" ", "x">>), PyInt(30)}

ItemValues == {PyStr(<<"x">>), PyInt(30)}

Lists == {PyList(xs) : xs \in SeqsUpTo(ItemValues, MaxItems)}

Values1 == Leaves \cup Lists \cup Dicts(Leaves)

\* Dicts whose keys are no XML names, a negative number, None, a list of
\* dicts.
OddValues ==
    {PyDict(<< <<KeyB, PyList(<<PyDict(<< <<KeyA, PyStr(<<"x">>)>> >>),
                               PyDict(<< <<KeyA, PyInt(30)>> >>)>>)>> >>)} \cup
    {PyDict(<< <<(<<"@", "i", "d">>), PyStr(<<"5">>)>> >>),
     PyDict(<< <<KeyA, PyDict(<< <<(<<"m", "y", " ", "k">>), PyInt(1)>> >>)>> >>),
     PyDict(<< <<KeyA, PyInt(-5)>> >>),
     PyDict(<< <<KeyA, PyNone>> >>)}

Values2 == Dicts(Values1) \cup Values1 \cup OddValues

IdAttrib == << <<(<<"i", "d">>), <<"5">>>> >>

El(tag, attrib, text, children) ==
    [tag |-> tag, attrib |-> attrib, text |-> text, children |-> children]

\* Children: empty, text only, attributes only; and two that have children
\* of their own.
ChildElements ==
    {El(KeyA, <<>>, PyNone, <<>>), El(KeyA, IdAttrib, PyNone, <<>>)}
    \cup {El(t, <<>>, PyStr(<<" ", "x">>), <<>>) : t \in {KeyA, KeyB}}
    \cup {El(KeyA, <<>>, PyStr(<<"y">>), <<El(KeyB, <<>>, PyStr(<<"1">>), <<>>)>>),
          El(KeyB, <<>>, PyNone, <<El(KeyA, <<>>, PyNone, <<>>)>>)}

RootTexts == {PyNone, PyStr(<<" ", "\n">>), PyStr(<<" ", "t", "\n">>)}

\* The input documents' root elements.
Elements ==
    {El(<<"r">>, at, tx, ch) :
        at \in {<<>>, IdAttrib}, tx \in RootTexts,
        ch \in SeqsUpTo(ChildElements, MaxChildren)}

\* Root elements with at most one child.
SmallElements == {e \in Elements : Len(e.children) <= 1}

RootTags == {DefaultRootTag, <<"d", "o", "c">>}

\* What the static methods are called with.
CodecInputs ==
    Values2 \cup {XmlText(e) : e \in Elements}
    \cup {BadText, JsonText(PyDict(<<>>)), YamlText(PyInt(30))}

\* The values the JSON and YAML payloads hold.
DocValues == Values1 \cup OddValues

\* What a converter is constructed with.
Payloads ==
    {v \in DocValues : v.k \in {"dict", "list", "int"}} \cup {PyNone, BadText}
    \cup {JsonText(v) : v \in DocValues}
    \cup {YamlText(v) : v \in DocValues \ Lists}
    \cup {PyBytes(v) : v \in OddValues}
    \cup {XmlText(e) : e \in SmallElements}

\* The data_type arguments tried.
DataTypes == {"json", "xml", "dict", "yaml", "unsupported", "JSON"}

\* ---------------------------------------------------------------- actions

Never == [kind |-> "never", val |-> <<>>]

NoCall ==
    [op |-> "none", param |-> <<>>, from |-> "none", input |-> PyNone,
     out |-> Never]

Fresh ==
    /\ self = NoObject
    /\ given = [data |-> PyNone, data_type |-> ""]
    /\ first = [to_json |-> Never, to_xml |-> Never, to_yaml |-> Never]
    /\ repeated = FALSE
    /\ last = NoCall

Init == arg \in Payloads /\ Fresh

\* DataConverter(arg, data_type)
Construct ==
    /\ ~self.alive
    /\ \E data_type \in DataTypes :
        LET r == __init__(arg, data_type)
        IN  /\ self' = r.self
            /\ given' = [data |-> arg, data_type |-> data_type]
            /\ last' = [op |-> "__init__", param |-> <<>>, from |-> "arg",
                        input |-> arg, out |-> r.out]
    /\ UNCHANGED <<arg, first, repeated>>

\* What a call of op on self leaves behind: no operation assigns to self.
Called(op, out) ==
    /\ self.alive
    /\ repeated' = (repeated \/ first[op] # Never)
    /\ first' = IF first[op] = Never THEN [first EXCEPT ![op] = out] ELSE first
    /\ last' = [op |-> op, param |-> <<>>, from |-> "self", input |-> self.data,
                out |-> out]
    /\ UNCHANGED <<arg, given>>

\* self.to_json()
ToJson == Called("to_json", to_json(self)) /\ self' = self

\* to_xml keeping what json.loads read in self.data.
ToXmlKeepingParsed ==
    /\ Called("to_xml", to_xml(self))
    /\ self' = IF self.data_type = "json" /\ json_loads(self.data).kind = "return"
               THEN [self EXCEPT !.data = json_loads(self.data).val]
               ELSE self

\* self.to_xml()
ToXml == Called("to_xml", to_xml(self)) /\ self' = self

\* self.to_yaml()
ToYaml == Called("to_yaml", to_yaml(self)) /\ self' = self

Next == Construct \/ ToJson \/ ToXml \/ ToYaml

Spec == Init /\ [][Next]_vars

\* The static methods, called without an instance.
CodecInit == arg \in CodecInputs /\ Fresh

StaticCall(op, param, from, input, out) ==
    /\ last' = [op |-> op, param |-> param, from |-> from, input |-> input,
                out |-> out]
    /\ UNCHANGED <<arg, self, given, first, repeated>>

\* DataConverter.dict_to_xml(arg, root_tag)
DictToXml ==
    /\ ~IsStr(arg)
    /\ \E root_tag \in RootTags :
        StaticCall("dict_to_xml", root_tag, "arg", arg, dict_to_xml(arg, root_tag))

\* DataConverter.json_to_xml(arg, root_tag)
JsonToXml ==
    /\ ~IsStr(arg)
    /\ \E root_tag \in RootTags :
        StaticCall("json_to_xml", root_tag, "arg", arg, json_to_xml(arg, root_tag))

\* DataConverter.xml_to_json(arg)
XmlToJson ==
    /\ IsStr(arg)
    /\ StaticCall("xml_to_json", <<>>, "arg", arg, xml_to_json(arg))

\* DataConverter.xml_to_json(text), text what dict_to_xml has just returned
XmlToJsonOfResult ==
    /\ last.op = "dict_to_xml"
    /\ last.out.kind = "return"
    /\ StaticCall("xml_to_json", last.param, "dict_to_xml", last.out.val,
                  xml_to_json(last.out.val))

\* DataConverter.yaml_to_dict(arg)
YamlToDict ==
    /\ IsStr(arg)
    /\ StaticCall("yaml_to_dict", <<>>, "arg", arg, yaml_to_dict(arg))

CodecNext == DictToXml \/ JsonToXml \/ XmlToJson \/ XmlToJsonOfResult \/ YamlToDict

CodecSpec == CodecInit /\ [][CodecNext]_vars

\* ----------------------------------------------------------------- claims

RECURSIVE SubElements(_)
\* An element and every element below it.
SubElements(e) ==
    {e} \cup UNION {SubElements(e.children[i]) : i \in 1..Len(e.children)}

\* A static xml_to_json call on the input document has returned.
Decoded == last.op = "xml_to_json" /\ last.from = "arg" /\ last.out.kind = "return"

\* The root element of the decoded document, and the mapping returned for it.
DecodedRoot == last.input.v

DecodedDoc == last.out.val.v

\* The decoder's result for e, read off the call's result for the root.
ResultFor(e) == IF e = DecodedRoot THEN DecodedDoc ELSE _xml_to_dict_recursive(e)

\* The text has a character that is no whitespace.
HasText(e) ==
    e.text.k = "str" /\ \E i \in 1..Len(e.text.v) : e.text.v[i] \notin Whitespace

\* The text from its first to its last character that is no whitespace.
Trimmed(e) ==
    LET ix == {i \in 1..Len(e.text.v) : e.text.v[i] \notin Whitespace}
        lo == CHOOSE i \in ix : \A j \in ix : i <= j
        hi == CHOOSE i \in ix : \A j \in ix : j <= i
    IN  SubSeq(e.text.v, lo, hi)

AttrKey(name) == <<"@">> \o name

\* d is {tag: value} for the element's tag.
KeyedByTag(d, e) == IsDict(d) /\ Len(d.v) = 1 /\ d.v[1][1] = e.tag

\* C3: every element, whatever its attributes, children and text, decodes to
\* a mapping with exactly one entry, keyed by the element's tag; so the root's
\* tag is the sole top-level key of what xml_to_json returns.
C3_OneEntryPerElement ==
    Decoded => \A e \in SubElements(DecodedRoot) : KeyedByTag(ResultFor(e), e)

\* The value the claims give a child: what its tag maps to, the empty mapping
\* for an element with no attributes, children or text.
ChildValue(c) ==
    LET d == _xml_to_dict_recursive(c).v
    IN  IF d = <<>> THEN PyDict(<<>>) ELSE d[1][2]

\* The values of the children of e tagged t, in document order.
ValuesTagged(e, t) ==
    LET ix == {i \in 1..Len(e.children) : e.children[i].tag = t}
        nth[n \in 1..Cardinality(ix)] ==
            CHOOSE i \in ix : Cardinality({j \in ix : j <= i}) = n
    IN  [n \in 1..Cardinality(ix) |-> ChildValue(e.children[nth[n]])]

\* The mapping an element with children decodes to.
MappingOf(e) == ResultFor(e).v[1][2]

\* C2: the folding rule. One child tagged t: its value is stored under t as
\* it is; k >= 2 children tagged t: t holds the list of their k values in
\* document order.
C2_FoldingRule ==
    Decoded =>
        \A e \in SubElements(DecodedRoot) :
            e.children # <<>> =>
                /\ KeyedByTag(ResultFor(e), e)
                /\ \A i \in 1..Len(e.children) :
                    LET t == e.children[i].tag
                        vals == ValuesTagged(e, t)
                    IN  /\ HasKey(MappingOf(e).v, t)
                        /\ DictGet(MappingOf(e).v, t) =
                            IF Len(vals) = 1 THEN vals[1] ELSE PyList(vals)

\* C4: an element with attributes decodes to {tag: mapping}, the mapping
\* holding "@" + name -> value for every attribute, and "#text" -> text too
\* when the element has no children and has text.
C4_AttributesKept ==
    Decoded =>
        \A e \in SubElements(DecodedRoot) :
            e.attrib # <<>> =>
                /\ KeyedByTag(ResultFor(e), e)
                /\ IsDict(MappingOf(e))
                /\ \A i \in 1..Len(e.attrib) :
                    /\ HasKey(MappingOf(e).v, AttrKey(e.attrib[i][1]))
                    /\ DictGet(MappingOf(e).v, AttrKey(e.attrib[i][1])) =
                        PyStr(e.attrib[i][2])
                /\ (e.children = <<>> /\ HasText(e)) =>
                    /\ HasKey(MappingOf(e).v, HashText)
                    /\ DictGet(MappingOf(e).v, HashText) = PyStr(Trimmed(e))

Encoded == last.op \in {"dict_to_xml", "json_to_xml"} /\ last.out.kind = "return"

\* The root element of the document returned.
EncodedRoot == last.out.val.v

\* The text a scalar is to be written as: a str as it is, 30 as "30".
Rendering(value) ==
    CASE value.k = "str" -> value.v
      [] value = PyInt(30) -> <<"3", "0">>
      [] value = PyInt(-5) -> <<"-", "5">>
      [] value = PyInt(1) -> <<"1">>
      [] OTHER -> <<"N", "o", "n", "e">>

RECURSIVE Mirrors(_, _)
\* The element mirrors the value: a child per key, named the key, in
\* insertion order; a child named item per list entry, in order; a scalar as
\* the element's text; at every depth.
Mirrors(value, el) ==
    IF IsDict(value) THEN
        /\ Len(el.children) = Len(value.v)
        /\ \A i \in 1..Len(value.v) :
            /\ el.children[i].tag = value.v[i][1]
            /\ Mirrors(value.v[i][2], el.children[i])
    ELSE IF IsList(value) THEN
        /\ Len(el.children) = Len(value.v)
        /\ \A i \in 1..Len(value.v) :
            /\ el.children[i].tag = ItemTag
            /\ Mirrors(value.v[i], el.children[i])
    ELSE
        /\ el.children = <<>>
        /\ TextChars(el) = Rendering(value)

\* C8: the document dict_to_xml / json_to_xml returns has a root named
\* root_tag and mirrors the input: keys as child elements in insertion order,
\* list entries as item elements in order, scalars as text.
C8_EncodingMirrors ==
    Encoded => /\ EncodedRoot.tag = last.param
               /\ Mirrors(last.input, EncodedRoot)

\* {b: [x, 30], a: {..: 30}} has been encoded under the root tag doc.
C8_Witness ==
    /\ Encoded
    /\ last.param = <<"d", "o", "c">>
    /\ IsDict(last.input)
    /\ Len(last.input.v) = 2
    /\ last.input.v[1][1] = KeyB
    /\ last.input.v[1][2] = PyList(<<PyStr(<<"x">>), PyInt(30)>>)
    /\ IsDict(last.input.v[2][2])
    /\ \E i \in 1..Len(last.input.v[2][2].v) : last.input.v[2][2].v[i][2] = PyInt(30)
    /\ Len(EncodedRoot.children) = 2
    /\ EncodedRoot.children[1].children[2].text = PyStr(<<"3", "0">>)

\* xml_to_json has decoded the document dict_to_xml returned for arg.
RoundTripped ==
    last.op = "xml_to_json" /\ last.from = "dict_to_xml" /\ last.out.kind = "return"

\* The mapping that came back.
RoundTripResult == last.out.val.v

RECURSIVE ScalarLeaves(_)
\* Every leaf of the value is a str or a number.
ScalarLeaves(m) ==
    IF IsDict(m) THEN \A i \in 1..Len(m.v) : ScalarLeaves(m.v[i][2])
    ELSE IF IsList(m) THEN \A i \in 1..Len(m.v) : ScalarLeaves(m.v[i])
    ELSE m.k \in {"str", "int"}

RECURSIVE LossyEqual(_, _)
\* d equals m up to the two lossy cases: a number of m is its rendering in d,
\* and a one-element list stands for its element.
LossyEqual(d, m) ==
    \/ IsDict(m) /\ IsDict(d) /\ Len(d.v) = Len(m.v)
        /\ \A i \in 1..Len(m.v) :
            d.v[i][1] = m.v[i][1] /\ LossyEqual(d.v[i][2], m.v[i][2])
    \/ IsList(m) /\ IsList(d) /\ Len(d.v) = Len(m.v)
        /\ \A i \in 1..Len(m.v) : LossyEqual(d.v[i], m.v[i])
    \/ IsList(m) /\ Len(m.v) = 1 /\ LossyEqual(d, m.v[1])
    \/ IsList(d) /\ Len(d.v) = 1 /\ LossyEqual(d.v[1], m)
    \/ m.k \in {"str", "int"} /\ d = PyStr(Rendering(m))

RECURSIVE NothingEmpty(_)
\* No dict or list in the value is empty and every str has a character that
\* is no whitespace: the encoder writes no element without content, so
\* the decoder drops none (C3).
NothingEmpty(m) ==
    IF IsDict(m) THEN m.v # <<>> /\ \A i \in 1..Len(m.v) : NothingEmpty(m.v[i][2])
    ELSE IF IsList(m) THEN m.v # <<>> /\ \A i \in 1..Len(m.v) : NothingEmpty(m.v[i])
    ELSE m.k = "str" => \E i \in 1..Len(m.v) : m.v[i] \notin Whitespace

\* C1 as stated: decoding the document dict_to_xml(m) returns yields m, up to
\* one-element lists and numbers read back as strings. Stated for the
\* mappings with nothing empty in them, where no element is dropped.
C1_RoundTrip ==
    (RoundTripped /\ IsDict(arg) /\ ScalarLeaves(arg) /\ NothingEmpty(arg)) =>
        LossyEqual(RoundTripResult, arg)

RECURSIVE Plain(_)
\* Nested non-empty mappings whose leaves are numbers or non-empty strings
\* that neither start nor end with whitespace.
Plain(m) ==
    IF IsDict(m) THEN m.v # <<>> /\ \A i \in 1..Len(m.v) : Plain(m.v[i][2])
    ELSE \/ m.k = "int"
         \/ /\ m.k = "str"
            /\ m.v # <<>>
            /\ m.v[1] \notin Whitespace
            /\ m.v[Len(m.v)] \notin Whitespace

RECURSIVE Stringified(_)
\* m with every number replaced by its rendering.
Stringified(m) ==
    IF IsDict(m)
    THEN PyDict([i \in 1..Len(m.v) |-> <<m.v[i][1], Stringified(m.v[i][2])>>])
    ELSE PyStr(Rendering(m))

\* C1 amended: for a plain mapping m, decoding the document
\* dict_to_xml(m, root_tag) returns yields {root_tag: m with its numbers
\* rendered as strings}.
C1_RoundTripAmended ==
    (RoundTripped /\ IsDict(arg) /\ Plain(arg)) =>
        RoundTripResult = PyDict(<< <<last.param, Stringified(arg)>> >>)

\* {a: {.. 30 ..}, b: ..}, plain, has made the round trip under the root tag
\* root.
C1_Witness ==
    /\ RoundTripped
    /\ IsDict(arg)
    /\ Plain(arg)
    /\ last.param = DefaultRootTag
    /\ Len(arg.v) = 2
    /\ IsDict(arg.v[1][2])
    /\ \E i \in 1..Len(arg.v[1][2].v) : arg.v[1][2].v[i][2] = PyInt(30)
    /\ RoundTripResult.v[1][1] = DefaultRootTag

\* An operation has been called on the converter.
FacadeCalled == last.op \in {"to_json", "to_xml", "to_yaml"}

\* The operation's target is the converter's declared format.
SameFormat ==
    <<self.data_type, last.op>> \in
        {<<"json", "to_json">>, <<"xml", "to_xml">>, <<"yaml", "to_yaml">>}

\* The error of the last line of to_json, to_xml and to_yaml.
IsUnsupportedError(out) ==
    /\ out.kind = "raise"
    /\ out.val.exc = "DataConverterError"
    /\ out.val.msg \in {"Unsupported data type for JSON conversion",
                        "Unsupported data type for XML conversion",
                        "Unsupported data type for YAML conversion"}

\* The payload has the native type of the declared format: a mapping for
\* dict, text for json (str or bytes), xml and yaml (str).
RightType(obj) ==
    CASE obj.data_type = "dict" -> IsDict(obj.data)
      [] obj.data_type = "json" -> IsStrOrBytes(obj.data)
      [] OTHER -> IsStr(obj.data)

\* The payload is a well-formed document of the declared format. A JSON
\* document is a YAML document, and so is a one-line XML document (a scalar).
WellFormedContent(obj) ==
    CASE obj.data_type = "dict" -> TRUE
      [] obj.data_type = "json" -> obj.data.k \in {"json_text", "bytes"}
      [] obj.data_type = "xml" -> obj.data.k = "xml_text"
      [] OTHER -> obj.data.k \in {"yaml_text", "json_text", "xml_text"}

\* The value the payload holds.
ContentOf(obj) ==
    IF obj.data.k \in {"json_text", "yaml_text", "bytes"} THEN obj.data.v
    ELSE obj.data

RECURSIVE NamesOK(_)
\* Every key in the value is an XML element name.
NamesOK(value) ==
    IF IsDict(value)
    THEN \A i \in 1..Len(value.v) : ValidName(value.v[i][1]) /\ NamesOK(value.v[i][2])
    ELSE IF IsList(value) THEN \A i \in 1..Len(value.v) : NamesOK(value.v[i])
    ELSE TRUE

\* C5: an operation raises the unsupported-conversion error exactly for the
\* pairs (json, to_json), (xml, to_xml), (yaml, to_yaml); for any other pair,
\* a payload of the right type and well-formed content, it returns a result.
C5_Dispatch ==
    FacadeCalled =>
        /\ IsUnsupportedError(last.out) <=> SameFormat
        /\ ( /\ ~SameFormat
             /\ RightType(self)
             /\ WellFormedContent(self)
             /\ last.op = "to_xml" => NamesOK(ContentOf(self)) )
            => last.out.kind = "return"

\* An xml converter has returned from to_json and then been refused to_xml.
C5_Witness ==
    /\ self.alive
    /\ self.data_type = "xml"
    /\ last.op = "to_xml"
    /\ IsUnsupportedError(last.out)
    /\ first.to_json.kind = "return"

\* C6: outside the same-format pairs, a payload whose type does not match the
\* declared format makes the operation raise DataConverterError.
C6_PayloadTypeChecked ==
    (FacadeCalled /\ ~SameFormat /\ ~RightType(self)) =>
        /\ last.out.kind = "raise"
        /\ last.out.val.exc = "DataConverterError"

\* C7: construction raises DataConverterError if and only if data_type is
\* outside {json, xml, dict, yaml}, whatever the payload; an instance has a
\* data_type of the set, and holds the payload given.
C7_ConstructionChecksTag ==
    /\ last.op = "__init__" =>
        /\ last.out.kind = "raise" <=>
            given.data_type \notin {"json", "xml", "dict", "yaml"}
        /\ last.out.kind = "raise" => last.out.val.exc = "DataConverterError"
        /\ last.out.kind = "raise" <=> ~self.alive
        /\ given.data = arg
        /\ self.alive => self.data = arg /\ self.data_type = given.data_type
    /\ self.alive => self.data_type \in {"json", "xml", "dict", "yaml"}

\* A mapping has been refused with the data_type unsupported.
C7_Witness ==
    /\ last.op = "__init__"
    /\ given.data_type = "unsupported"
    /\ IsDict(given.data)
    /\ last.out = DataConverterError("Unsupported data type")
    /\ ~self.alive

\* C10: whatever has been called on it, the converter holds the payload and
\* the data_type it was constructed with, and a call's outcome is the outcome
\* of the first call of that operation.
C10_PayloadAndTagKept ==
    self.alive =>
        /\ self.data = given.data
        /\ self.data_type = given.data_type
        /\ FacadeCalled => last.out = first[last.op]

\* to_json has raised, to_xml has returned, and an operation has been called
\* again.
C10_Witness ==
    /\ self.alive
    /\ repeated
    /\ last.op = "to_xml"
    /\ first.to_json.kind = "raise"
    /\ first.to_xml.kind = "return"
    /\ first.to_yaml.kind = "return"

====
